---------------------------- MODULE Spec2Model ----------------------------
(***************************************************************************)
(* Camera trajectory generators of MatrixCityPlugin/Content/Python/        *)
(* utils_sequencer.py: generate_train_box, generate_test_box,              *)
(* generate_train_line, generate_test_line and the driver main().          *)
(*                                                                         *)
(* World coordinates are integers.  A lattice coordinate produced by       *)
(* np.linspace is the exact rational <<numerator, denominator>>; every     *)
(* coordinate of a keyframe location is such a pair.  np.random is the     *)
(* process-wide generator: its hidden state is the variable rng, seeded    *)
(* with an unknown value, and every draw reads and advances it.            *)
(***************************************************************************)
EXTENDS Integers, Sequences, FiniteSets, TLC

VARIABLES
    pc,             \* position of the driver: "run", "aborted" or "done"
    current_frame,  \* main(): the cursor threaded through the calls
    camera_trans,   \* main(): the keyframe list accumulated by the session
    seq_length,     \* main(): the declared sequence length (-1 until set)
    arg_line1,      \* caller's list object passed as line1 to the last box call
    arg_line2,      \* caller's list object passed as line2 to the last box call
    arg_point1,     \* caller's list object passed as point1 to the last line call
    arg_point2,     \* caller's list object passed as point2 to the last line call
    call,           \* the last generator call: arguments, locals and result
    prev_box,       \* the latest generate_train_box call made before `call`
    rng,            \* hidden state of the global np.random generator
    ncalls,         \* generator calls made so far
    sessions,       \* concurrent sessions: each its script, cursor and list
    last_session    \* the session that made the last call (0: none)

vars == <<pc, current_frame, camera_trans, seq_length, arg_line1, arg_line2,
          arg_point1, arg_point2, call, prev_box, rng, ncalls, sessions,
          last_session>>

----------------------------------------------------------------------------
(* Bounds of the model *)

MaxCalls == 2

MaxRepeat == 3

ScriptLen == 2

(* Program constants *)

TrainBoxInterval == 4000
TestBoxInterval == 4501
DenseInterval == 100
SparseInterval == 500
TestLineInterval == 4830
TestLineMargin == 570
PitchAltitude == 25000
HighPitch == -60
LowPitch == -45

----------------------------------------------------------------------------
(* Arithmetic helpers *)

Abs(x) == IF x < 0 THEN -x ELSE x

RECURSIVE ISqrtIn(_, _, _)
\* bisection keeping lo * lo <= n < hi * hi
ISqrtIn(n, lo, hi) ==
    IF hi - lo <= 1 THEN lo
    ELSE LET mid == (lo + hi) \div 2
         IN  IF mid * mid <= n THEN ISqrtIn(n, mid, hi) ELSE ISqrtIn(n, lo, mid)

\* floor(sqrt(n)) for 0 <= n < 46340 * 46340
ISqrt(n) == ISqrtIn(n, 0, 46340)

\* math.dist(p, q) rounded down to a whole unit.  int(d / k) of the source
\* equals floor(floor(d) / k) for a whole k >= 1, so the counts computed from
\* it are the counts the source computes.
Dist(p, q) ==
    LET dx == Abs(p[1] - q[1])
        dy == Abs(p[2] - q[2])
    IN  IF dy = 0 THEN dx
        ELSE IF dx = 0 THEN dy
        ELSE ISqrt(dx * dx + dy * dy)

\* int(d / interval) for d >= 0
IntDiv(d, interval) == d \div interval

\* np.linspace(start, stop, num)[i] for 0 <= i < num, num >= 2: the exact
\* value start + i * (stop - start) / (num - 1) as <<numerator, denominator>>
LinspaceAt(start, stop, num, i) ==
    <<start * (num - 1) + i * (stop - start), num - 1>>

Linspace(start, stop, num) ==
    [k \in 1..num |-> LinspaceAt(start, stop, num, k - 1)]

\* a whole coordinate as a rational
Whole(x) == <<x, 1>>

SequenceKey(frame, location, rotation) ==
    [frame |-> frame, location |-> location, rotation |-> rotation]

----------------------------------------------------------------------------
(* The global random generator *)

\* the generator's next hidden state
RngNext(s) == (s * 1029 + 1) % 1048576

\* variant: the upper end of the range is included
RandIntClosed(low, high, s) == low + (s % (high - low + 1))

\* np.random.randint(low, high, size=1) on hidden state s: a whole number
\* in the half-open range [low, high)
RandInt(low, high, s) == low + (s % (high - low))

----------------------------------------------------------------------------
(* generate_train_box *)

\* variant: the last assertion is missing
BoxPreconditionThree(line1, line2) ==
    /\ line1[2] = line1[4]
    /\ line2[2] = line2[4]
    /\ line1[1] = line2[1]

\* variant: a region without width is rejected as well
BoxPreconditionNonEmpty(line1, line2) ==
    /\ line1[2] = line1[4]
    /\ line2[2] = line2[4]
    /\ line1[1] = line2[1]
    /\ line1[3] = line2[3]
    /\ line1[1] # line1[3]

BoxPrecondition(line1, line2) ==
    /\ line1[2] = line1[4]
    /\ line2[2] = line2[4]
    /\ line1[1] = line2[1]
    /\ line1[3] = line2[3]

BoxWidth(line1, line2) == Dist(<<line1[1], line1[2]>>, <<line1[3], line1[4]>>)

BoxHeight(line1, line2) == Dist(<<line1[1], line1[2]>>, <<line2[1], line2[2]>>)

\* variant: one lattice sample too few
WInstanceOneLess(w, interval) == IntDiv(w, interval) + 1

WInstance(w, interval) == IntDiv(w, interval) + 2

\* variant: the dwell count is not raised by one
HInstanceFloor(h, interval) == IntDiv(h, interval)

HInstance(h, interval) == IntDiv(h, interval) + 1

\* variant: the pitch is drawn from the global generator, as in the test path
TrainPitchDrawn(z) == RandInt(-60, -44, rng)

\* variant: the threshold altitude itself already gets the steep pitch
TrainPitchFrom(z) == IF z >= PitchAltitude THEN HighPitch ELSE LowPitch

TrainPitch(z) == IF z > PitchAltitude THEN HighPitch ELSE LowPitch

\* variant: the cursor is not advanced after the lane's end keyframe
LaneStepNoGap(st, start, end, z, h_instance, pitch, yaw) ==
    LET f1 == st.current_frame
        f2 == f1 + h_instance
    IN  [camera_trans |->
            Append(Append(st.camera_trans,
                          SequenceKey(f1, <<start[1], start[2], z>>, <<0, pitch, yaw>>)),
                   SequenceKey(f2, <<end[1], end[2], z>>, <<0, pitch, yaw>>)),
         current_frame |-> f2]

\* variant: the lane is flown from its end point to its start point
LaneStepEndFirst(st, start, end, z, h_instance, pitch, yaw) ==
    LET f1 == st.current_frame
        f2 == f1 + h_instance
    IN  [camera_trans |->
            Append(Append(st.camera_trans,
                          SequenceKey(f1, <<end[1], end[2], z>>, <<0, pitch, yaw>>)),
                   SequenceKey(f2, <<start[1], start[2], z>>, <<0, pitch, yaw>>)),
         current_frame |-> f2 + 1]

\* one iteration of a lane loop: the keyframe at the lane's start point, the
\* cursor advanced by h_instance, the keyframe at the lane's end point, the
\* cursor advanced by 1
LaneStep(st, start, end, z, h_instance, pitch, yaw) ==
    LET f1 == st.current_frame
        f2 == f1 + h_instance
    IN  [camera_trans |->
            Append(Append(st.camera_trans,
                          SequenceKey(f1, <<start[1], start[2], z>>, <<0, pitch, yaw>>)),
                   SequenceKey(f2, <<end[1], end[2], z>>, <<0, pitch, yaw>>)),
         current_frame |-> f2 + 1]

RECURSIVE LaneLoop(_, _, _, _, _, _, _, _)
\* for i in range(w_instance) with a fixed rotation (0, pitch, yaw): the
\* list and the cursor after the first n iterations, entered with st
LaneLoop(st, n, starts, ends, z, h_instance, pitch, yaw) ==
    IF n = 0 THEN st
    ELSE LET before == LaneLoop(st, n - 1, starts, ends, z, h_instance, pitch, yaw)
         IN  LaneStep(before, starts[n], ends[n], z, h_instance, pitch, yaw)

\* the lattice of lane start points (on line1) or end points (on line2)
Lattice(line, w_instance) ==
    LET xs == Linspace(line[1], line[3], w_instance)
        ys == Linspace(line[2], line[4], w_instance)
    IN  [k \in 1..w_instance |-> <<xs[k], ys[k]>>]

\* what a call that raised leaves behind: no list, no cursor
Raised == [raised |-> TRUE, camera_trans |-> <<>>, current_frame |-> -1,
           w_instance |-> -1, h_instance |-> -1, instance |-> -1,
           point1 |-> <<>>, point2 |-> <<>>, rng |-> -1, draws |-> <<>>]

generate_train_box(line1, line2, z, frame) ==
    IF ~BoxPrecondition(line1, line2) THEN [Raised EXCEPT !.rng = rng]
    ELSE
    LET w_instance == WInstance(BoxWidth(line1, line2), TrainBoxInterval)
        h_instance == HInstance(BoxHeight(line1, line2), TrainBoxInterval)
        starts == Lattice(line1, w_instance)
        ends == Lattice(line2, w_instance)
        pitch == TrainPitch(z)
        s0 == [camera_trans |-> <<>>, current_frame |-> frame]
        s1 == LaneLoop(s0, w_instance, starts, ends, z, h_instance, pitch, 0)
        s2 == LaneLoop(s1, w_instance, starts, ends, z, h_instance, pitch, 90)
        s3 == LaneLoop(s2, w_instance, starts, ends, z, h_instance, pitch, 180)
        s4 == LaneLoop(s3, w_instance, starts, ends, z, h_instance, pitch, 270)
        loops == <<s1, s2, s3, s4>>
    IN  [raised |-> FALSE, camera_trans |-> loops[4].camera_trans,
         current_frame |-> loops[4].current_frame,
         w_instance |-> w_instance, h_instance |-> h_instance, instance |-> -1,
         point1 |-> <<>>, point2 |-> <<>>, rng |-> rng, draws |-> <<>>]

----------------------------------------------------------------------------
(* generate_test_box *)

DrawBoxPitch(s) == RandInt(-60, -44, s)

DrawBoxYaw(s) == RandInt(0, 361, s)

\* one iteration of the test loop: a pitch and a yaw are drawn, then the two
\* keyframes of the lane carry them
\* variant: the end keyframe of the lane gets a pitch and a yaw of its own
TestLaneStepPerKeyframe(st, start, end, z, h_instance) ==
    LET pitch == DrawBoxPitch(st.rng)
        r1 == RngNext(st.rng)
        yaw == DrawBoxYaw(r1)
        r2 == RngNext(r1)
        pitch2 == DrawBoxPitch(r2)
        r3 == RngNext(r2)
        yaw2 == DrawBoxYaw(r3)
        r4 == RngNext(r3)
        f1 == st.current_frame
        f2 == f1 + h_instance
    IN  [camera_trans |->
            Append(Append(st.camera_trans,
                          SequenceKey(f1, <<start[1], start[2], z>>, <<0, pitch, yaw>>)),
                   SequenceKey(f2, <<end[1], end[2], z>>, <<0, pitch2, yaw2>>)),
         current_frame |-> f2 + 1,
         rng |-> r4,
         draws |-> st.draws \o <<pitch, yaw, pitch2, yaw2>>]

TestLaneStep(st, start, end, z, h_instance) ==
    LET pitch == DrawBoxPitch(st.rng)
        r1 == RngNext(st.rng)
        yaw == DrawBoxYaw(r1)
        r2 == RngNext(r1)
        kf == LaneStep(st, start, end, z, h_instance, pitch, yaw)
    IN  [camera_trans |-> kf.camera_trans, current_frame |-> kf.current_frame,
         rng |-> r2, draws |-> Append(Append(st.draws, pitch), yaw)]

RECURSIVE TestLaneLoop(_, _, _, _, _, _)
\* the list, the cursor and the generator after the first n iterations
TestLaneLoop(st, n, starts, ends, z, h_instance) ==
    IF n = 0 THEN st
    ELSE LET before == TestLaneLoop(st, n - 1, starts, ends, z, h_instance)
         IN  TestLaneStep(before, starts[n], ends[n], z, h_instance)

generate_test_box(line1, line2, z, frame) ==
    IF ~BoxPrecondition(line1, line2) THEN [Raised EXCEPT !.rng = rng]
    ELSE
    LET w_instance == WInstance(BoxWidth(line1, line2), TestBoxInterval)
        h_instance == HInstance(BoxHeight(line1, line2), TestBoxInterval)
        starts == Lattice(line1, w_instance)
        ends == Lattice(line2, w_instance)
        s0 == [camera_trans |-> <<>>, current_frame |-> frame, rng |-> rng,
               draws |-> <<>>]
        s1 == TestLaneLoop(s0, w_instance, starts, ends, z, h_instance)
    IN  [raised |-> FALSE, camera_trans |-> s1.camera_trans,
         current_frame |-> s1.current_frame,
         w_instance |-> w_instance, h_instance |-> h_instance, instance |-> -1,
         point1 |-> <<>>, point2 |-> <<>>, rng |-> s1.rng, draws |-> s1.draws]

----------------------------------------------------------------------------
(* generate_train_line and generate_test_line *)

\* variant: the segment count is not raised by one
LineInstanceFloor(distance, interval) == IntDiv(distance, interval)

LineInstance(distance, interval) == IntDiv(distance, interval) + 1

TrainLineInterval(dense) == IF dense THEN DenseInterval ELSE SparseInterval

\* variant: the cursor moves back by instance between the two keyframes
PairStepBack(st, point1, point2, z, instance, pitch, yaw) ==
    LET f1 == st.current_frame
        f2 == f1 - instance
    IN  [camera_trans |->
            Append(Append(st.camera_trans,
                          SequenceKey(f1, <<Whole(point1[1]), Whole(point1[2]), z>>,
                                      <<0, pitch, yaw>>)),
                   SequenceKey(f2, <<Whole(point2[1]), Whole(point2[2]), z>>,
                               <<0, pitch, yaw>>)),
         current_frame |-> f2 + 1]

\* one pair of a line sweep: the keyframe at point1, the cursor advanced by
\* instance, the keyframe at point2, the cursor advanced by 1
PairStep(st, point1, point2, z, instance, pitch, yaw) ==
    LET f1 == st.current_frame
        f2 == f1 + instance
    IN  [camera_trans |->
            Append(Append(st.camera_trans,
                          SequenceKey(f1, <<Whole(point1[1]), Whole(point1[2]), z>>,
                                      <<0, pitch, yaw>>)),
                   SequenceKey(f2, <<Whole(point2[1]), Whole(point2[2]), z>>,
                               <<0, pitch, yaw>>)),
         current_frame |-> f2 + 1]

\* variant: the pair looking straight down is emitted as well
LineSweepLookDown(point1, point2, z, yaw, frame, instance) ==
    LET s0 == [camera_trans |-> <<>>, current_frame |-> frame]
        s1 == PairStep(s0, point1, point2, z, instance, 0, yaw)
        s2 == PairStep(s1, point1, point2, z, instance, 0, 90 + yaw)
        s3 == PairStep(s2, point1, point2, z, instance, 0, 180 + yaw)
        s4 == PairStep(s3, point1, point2, z, instance, 0, 270 + yaw)
        s5 == PairStep(s4, point1, point2, z, instance, -90, yaw)
        s6 == PairStep(s5, point1, point2, z, instance, 90, yaw)
    IN  s6

\* the five pairs both line generators emit
LineSweep(point1, point2, z, yaw, frame, instance) ==
    LET s0 == [camera_trans |-> <<>>, current_frame |-> frame]
        s1 == PairStep(s0, point1, point2, z, instance, 0, yaw)
        s2 == PairStep(s1, point1, point2, z, instance, 0, 90 + yaw)
        s3 == PairStep(s2, point1, point2, z, instance, 0, 180 + yaw)
        s4 == PairStep(s3, point1, point2, z, instance, 0, 270 + yaw)
        s5 == PairStep(s4, point1, point2, z, instance, 90, yaw)
    IN  s5

generate_train_line(point1, point2, z, yaw, frame, dense) ==
    LET distance == Dist(point1, point2)
        instance == LineInstance(distance, TrainLineInterval(dense))
        s == LineSweep(point1, point2, z, yaw, frame, instance)
    IN  [raised |-> FALSE, camera_trans |-> s.camera_trans,
         current_frame |-> s.current_frame,
         w_instance |-> -1, h_instance |-> -1, instance |-> instance,
         point1 |-> point1, point2 |-> point2, rng |-> rng, draws |-> <<>>]

\* math.cos(math.radians(yaw)) and math.sin(math.radians(yaw)) for a yaw that
\* is a multiple of 90 degrees, where both are whole
CosDeg(yaw) == CASE yaw % 360 = 0 -> 1
                 [] yaw % 360 = 180 -> -1
                 [] OTHER -> 0

SinDeg(yaw) == CASE yaw % 360 = 90 -> 1
                 [] yaw % 360 = 270 -> -1
                 [] OTHER -> 0

\* variant: point1 is moved outward, away from point2
DisplacePoint1Outward(point1, yaw) ==
    <<point1[1] - CosDeg(yaw) * TestLineMargin, point1[2] - SinDeg(yaw) * TestLineMargin>>

\* the in-place updates of point1 and point2
DisplacePoint1(point1, yaw) ==
    <<point1[1] + CosDeg(yaw) * TestLineMargin, point1[2] + SinDeg(yaw) * TestLineMargin>>

DisplacePoint2(point2, yaw) ==
    <<point2[1] - CosDeg(yaw) * TestLineMargin, point2[2] - SinDeg(yaw) * TestLineMargin>>

DrawLineYaw(s) == RandInt(0, 90, s)

generate_test_line(point1, point2, z, yaw, frame) ==
    LET p1 == DisplacePoint1(point1, yaw)
        p2 == DisplacePoint2(point2, yaw)
        drawn == DrawLineYaw(rng)
        distance == Dist(p1, p2)
        instance == LineInstance(distance, TestLineInterval)
        s == LineSweep(p1, p2, z, drawn, frame, instance)
    IN  [raised |-> FALSE, camera_trans |-> s.camera_trans,
         current_frame |-> s.current_frame,
         w_instance |-> -1, h_instance |-> -1, instance |-> instance,
         point1 |-> p1, point2 |-> p2, rng |-> RngNext(rng), draws |-> <<drawn>>]

----------------------------------------------------------------------------
(* Inputs *)

\* <<line1, line2>>: the region of main(), a region whose edges run from
\* right to left, a region of no width and no height, and four pairs of
\* edges that each break one assertion
BoxRegions ==
    { << <<-100000, 0, -12000, 0>>, <<-100000, 38000, -12000, 38000>> >>,
      << <<5000, 0, -3000, 0>>, <<5000, -4500, -3000, -4500>> >>,
      << <<0, 0, 0, 0>>, <<0, 0, 0, 0>> >>,
      << <<0, 0, 4000, 1>>, <<0, 8000, 4000, 8000>> >>,
      << <<0, 0, 4000, 0>>, <<0, 8000, 4000, 8001>> >>,
      << <<0, 0, 4000, 0>>, <<1, 8000, 4000, 8000>> >>,
      << <<0, 0, 4000, 0>>, <<0, 8000, 4001, 8000>> >> }

Altitudes == {15000, 25000, 25001}

\* <<point1, point2>>
LineSegments ==
    { << <<0, 0>>, <<1000, 0>> >>,
      << <<0, 0>>, <<0, 0>> >>,
      << <<0, 0>>, <<6000, 8000>> >> }

StreetAltitudes == {300}

TrainYaws == {0, 30}

TestYaws == {0, 90}

TestAltitudes == {15000}

\* unknown seeds of the global generator: from the first the draws start at
\* the low end of every range, from the second at the high end
Seeds == {181440, 354959}

NoCall == [fn |-> "none", line1 |-> <<>>, line2 |-> <<>>, point1 |-> <<>>,
           point2 |-> <<>>, z |-> 0, yaw |-> 0, dense |-> FALSE, frame |-> 0,
           ret |-> Raised]

BoxCall(fn, line1, line2, z, frame, ret) ==
    [fn |-> fn, line1 |-> line1, line2 |-> line2, point1 |-> <<>>,
     point2 |-> <<>>, z |-> z, yaw |-> 0, dense |-> FALSE, frame |-> frame,
     ret |-> ret]

LineCall(fn, point1, point2, z, yaw, dense, frame, ret) ==
    [fn |-> fn, line1 |-> <<>>, line2 |-> <<>>, point1 |-> point1,
     point2 |-> point2, z |-> z, yaw |-> yaw, dense |-> dense, frame |-> frame,
     ret |-> ret]

----------------------------------------------------------------------------
(* main(): a session that threads current_frame through generator calls *)

Init ==
    /\ pc = "run"
    /\ current_frame = 0
    /\ camera_trans = <<>>
    /\ seq_length = -1
    /\ arg_line1 = <<>>
    /\ arg_line2 = <<>>
    /\ arg_point1 = <<>>
    /\ arg_point2 = <<>>
    /\ call = NoCall
    /\ prev_box = NoCall
    /\ rng \in Seeds
    /\ ncalls = 0
    /\ sessions = <<>>
    /\ last_session = 0

\* variant: the returned cursor is dropped, the next call starts where this
\* one started
ThreadedCursorDropped(c) ==
    /\ call' = c
    /\ prev_box' = IF call.fn = "train_box" THEN call ELSE prev_box
    /\ rng' = c.ret.rng
    /\ ncalls' = ncalls + 1
    /\ seq_length' = seq_length
    /\ UNCHANGED <<sessions, last_session>>
    /\ IF c.ret.raised
       THEN /\ pc' = "aborted"
            /\ UNCHANGED <<current_frame, camera_trans>>
       ELSE /\ pc' = "run"
            /\ current_frame' = current_frame
            /\ camera_trans' = camera_trans \o c.ret.camera_trans

\* camera_trans, current_frame = generate_...(...): the tuple assignment
\* happens only when the call returns; an AssertionError ends main()
Threaded(c) ==
    /\ call' = c
    /\ prev_box' = IF call.fn = "train_box" THEN call ELSE prev_box
    /\ rng' = c.ret.rng
    /\ ncalls' = ncalls + 1
    /\ seq_length' = seq_length
    /\ UNCHANGED <<sessions, last_session>>
    /\ IF c.ret.raised
       THEN /\ pc' = "aborted"
            /\ UNCHANGED <<current_frame, camera_trans>>
       ELSE /\ pc' = "run"
            /\ current_frame' = c.ret.current_frame
            /\ camera_trans' = camera_trans \o c.ret.camera_trans

MainTrainBox ==
    /\ pc = "run"
    /\ ncalls < MaxCalls
    /\ \E r \in BoxRegions, z \in Altitudes :
          /\ Threaded(BoxCall("train_box", r[1], r[2], z, current_frame,
                              generate_train_box(r[1], r[2], z, current_frame)))
          /\ arg_line1' = r[1]
          /\ arg_line2' = r[2]
          /\ UNCHANGED <<arg_point1, arg_point2>>

MainTestBox ==
    /\ pc = "run"
    /\ ncalls < MaxCalls
    /\ \E r \in BoxRegions, z \in TestAltitudes :
          /\ Threaded(BoxCall("test_box", r[1], r[2], z, current_frame,
                              generate_test_box(r[1], r[2], z, current_frame)))
          /\ arg_line1' = r[1]
          /\ arg_line2' = r[2]
          /\ UNCHANGED <<arg_point1, arg_point2>>

MainTrainLine ==
    /\ pc = "run"
    /\ ncalls < MaxCalls
    /\ \E g \in LineSegments, z \in StreetAltitudes, yaw \in TrainYaws,
          dense \in BOOLEAN :
          LET ret == generate_train_line(g[1], g[2], z, yaw, current_frame, dense)
          IN  /\ Threaded(LineCall("train_line", g[1], g[2], z, yaw, dense,
                                   current_frame, ret))
              /\ arg_point1' = ret.point1
              /\ arg_point2' = ret.point2
              /\ UNCHANGED <<arg_line1, arg_line2>>

MainTestLine ==
    /\ pc = "run"
    /\ ncalls < MaxCalls
    /\ \E g \in LineSegments, z \in StreetAltitudes, yaw \in TestYaws :
          LET ret == generate_test_line(g[1], g[2], z, yaw, current_frame)
          IN  /\ Threaded(LineCall("test_line", g[1], g[2], z, yaw, FALSE,
                                   current_frame, ret))
              /\ arg_point1' = ret.point1
              /\ arg_point2' = ret.point2
              /\ UNCHANGED <<arg_line1, arg_line2>>

\* seq_length=current_frame; generate_sequence(..., seq_length)
MainSequence ==
    /\ pc = "run"
    /\ ncalls >= 1
    /\ seq_length' = current_frame
    /\ pc' = "done"
    /\ UNCHANGED <<current_frame, camera_trans, arg_line1, arg_line2,
                   arg_point1, arg_point2, call, prev_box, rng, ncalls,
                   sessions, last_session>>

Next ==
    \/ MainTrainBox
    \/ MainTestBox
    \/ MainTrainLine
    \/ MainTestLine
    \/ MainSequence

Spec == Init /\ [][Next]_vars

----------------------------------------------------------------------------
(* A caller that repeats generator calls with cursors of its own choice *)

StartFrames == {0, 7}

RepeatBoxRegions ==
    { << <<5000, 0, -3000, 0>>, <<5000, -4500, -3000, -4500>> >>,
      << <<0, 0, 0, 0>>, <<0, 0, 0, 0>> >>,
      << <<0, 0, 4000, 0>>, <<0, 8000, 4001, 8000>> >> }

RepeatAltitudes == {15000, 25001}

RepeatSegments == { << <<0, 0>>, <<6000, 8000>> >> }

InitRepeat ==
    /\ pc = "repeat"
    /\ current_frame = 0
    /\ camera_trans = <<>>
    /\ seq_length = -1
    /\ arg_line1 = <<>>
    /\ arg_line2 = <<>>
    /\ arg_point1 = <<>>
    /\ arg_point2 = <<>>
    /\ call = NoCall
    /\ prev_box = NoCall
    /\ rng \in Seeds
    /\ ncalls = 0
    /\ sessions = <<>>
    /\ last_session = 0

\* camera_trans, current_frame = generate_...(...) with the result replacing
\* what the caller held; a caller that catches the AssertionError goes on
Replaced(c) ==
    /\ call' = c
    /\ prev_box' = IF call.fn = "train_box" THEN call ELSE prev_box
    /\ rng' = c.ret.rng
    /\ ncalls' = ncalls + 1
    /\ UNCHANGED <<pc, seq_length, sessions, last_session>>
    /\ IF c.ret.raised
       THEN UNCHANGED <<current_frame, camera_trans>>
       ELSE /\ current_frame' = c.ret.current_frame
            /\ camera_trans' = c.ret.camera_trans

RepeatTrainBox ==
    /\ ncalls < MaxRepeat
    /\ \E r \in RepeatBoxRegions, z \in RepeatAltitudes, c \in StartFrames :
          /\ Replaced(BoxCall("train_box", r[1], r[2], z, c,
                              generate_train_box(r[1], r[2], z, c)))
          /\ arg_line1' = r[1]
          /\ arg_line2' = r[2]
          /\ UNCHANGED <<arg_point1, arg_point2>>

RepeatTestBox ==
    /\ ncalls < MaxRepeat
    /\ \E r \in RepeatBoxRegions, z \in TestAltitudes, c \in {0} :
          /\ Replaced(BoxCall("test_box", r[1], r[2], z, c,
                              generate_test_box(r[1], r[2], z, c)))
          /\ arg_line1' = r[1]
          /\ arg_line2' = r[2]
          /\ UNCHANGED <<arg_point1, arg_point2>>

RepeatTestLine ==
    /\ ncalls < MaxRepeat
    /\ \E g \in RepeatSegments, z \in StreetAltitudes, yaw \in TestYaws,
          c \in {0} :
          LET ret == generate_test_line(g[1], g[2], z, yaw, c)
          IN  /\ Replaced(LineCall("test_line", g[1], g[2], z, yaw, FALSE, c, ret))
              /\ arg_point1' = ret.point1
              /\ arg_point2' = ret.point2
              /\ UNCHANGED <<arg_line1, arg_line2>>

NextRepeat ==
    \/ RepeatTrainBox
    \/ RepeatTestBox
    \/ RepeatTestLine

SpecRepeat == InitRepeat /\ [][NextRepeat]_vars

----------------------------------------------------------------------------
(* Two sessions of train generator calls, each with a cursor and a list of *)
(* its own, running at the same time *)

\* the train calls a session's script is made of
SessionCalls ==
    { [fn |-> "train_box", line1 |-> <<5000, 0, -3000, 0>>,
       line2 |-> <<5000, -4500, -3000, -4500>>, point1 |-> <<>>, point2 |-> <<>>,
       z |-> 15000, yaw |-> 0, dense |-> FALSE],
      [fn |-> "train_box", line1 |-> <<0, 0, 0, 0>>, line2 |-> <<0, 0, 0, 0>>,
       point1 |-> <<>>, point2 |-> <<>>, z |-> 25001, yaw |-> 0, dense |-> FALSE],
      [fn |-> "train_line", line1 |-> <<>>, line2 |-> <<>>, point1 |-> <<0, 0>>,
       point2 |-> <<6000, 8000>>, z |-> 300, yaw |-> 30, dense |-> FALSE] }

Scripts == [1..ScriptLen -> SessionCalls]

\* the generator call c names, started at frame
CallTrain(c, frame) ==
    IF c.fn = "train_box"
    THEN generate_train_box(c.line1, c.line2, c.z, frame)
    ELSE generate_train_line(c.point1, c.point2, c.z, c.yaw, frame, c.dense)

NewSession(script) ==
    [script |-> script, pos |-> 0, current_frame |-> 0, camera_trans |-> <<>>,
     crossed |-> FALSE]

\* variant: the cursor is one module-level variable, which every session
\* reads and the last call of any session has set
SessionCursorShared(s) == IF call.fn = "none" THEN 0 ELSE call.ret.current_frame

\* the cursor a session hands to its next call: its own current_frame
SessionCursor(s) == s.current_frame

InitSessions ==
    /\ pc = "sessions"
    /\ current_frame = 0
    /\ camera_trans = <<>>
    /\ seq_length = -1
    /\ arg_line1 = <<>>
    /\ arg_line2 = <<>>
    /\ arg_point1 = <<>>
    /\ arg_point2 = <<>>
    /\ call = NoCall
    /\ prev_box = NoCall
    /\ rng \in Seeds
    /\ ncalls = 0
    /\ sessions \in [1..2 -> {NewSession(script) : script \in Scripts}]
    /\ last_session = 0

\* tmp_camera_trans, current_frame = generate_train_...(..., current_frame);
\* camera_trans.extend(tmp_camera_trans), in session i
SessionStep(i) ==
    LET s == sessions[i]
        c == s.script[s.pos + 1]
        frame == SessionCursor(s)
        ret == CallTrain(c, frame)
    IN  /\ sessions' = [sessions EXCEPT ![i] =
                           [script |-> s.script,
                            pos |-> s.pos + 1,
                            current_frame |-> ret.current_frame,
                            camera_trans |-> s.camera_trans \o ret.camera_trans,
                            crossed |-> s.crossed \/ (s.pos > 0 /\ last_session # i)]]
        /\ last_session' = i
        /\ call' = [fn |-> c.fn, line1 |-> c.line1, line2 |-> c.line2,
                    point1 |-> c.point1, point2 |-> c.point2, z |-> c.z,
                    yaw |-> c.yaw, dense |-> c.dense, frame |-> frame, ret |-> ret]
        /\ prev_box' = IF call.fn = "train_box" THEN call ELSE prev_box
        /\ rng' = ret.rng
        /\ ncalls' = ncalls + 1
        /\ IF c.fn = "train_box"
           THEN /\ arg_line1' = c.line1
                /\ arg_line2' = c.line2
                /\ UNCHANGED <<arg_point1, arg_point2>>
           ELSE /\ arg_point1' = ret.point1
                /\ arg_point2' = ret.point2
                /\ UNCHANGED <<arg_line1, arg_line2>>
        /\ UNCHANGED <<pc, current_frame, camera_trans, seq_length>>

FirstSessionStep ==
    /\ sessions[1].pos < Len(sessions[1].script)
    /\ SessionStep(1)

SecondSessionStep ==
    /\ sessions[2].pos < Len(sessions[2].script)
    /\ SessionStep(2)

NextSessions ==
    \/ FirstSessionStep
    \/ SecondSessionStep

SpecSessions == InitSessions /\ [][NextSessions]_vars

----------------------------------------------------------------------------
(* Properties *)

Frames(trans) == [k \in 1..Len(trans) |-> trans[k].frame]

StrictlyIncreasing(fs) == \A k \in 1..(Len(fs) - 1) : fs[k] < fs[k + 1]

NonDecreasing(fs) == \A k \in 1..(Len(fs) - 1) : fs[k] <= fs[k + 1]

Returned(fn) == call.fn = fn /\ ~call.ret.raised

\* the four assertions on the edges of the last box call, read off its arguments
AxisAligned ==
    /\ call.line1[2] = call.line1[4]
    /\ call.line2[2] = call.line2[4]
    /\ call.line1[1] = call.line2[1]
    /\ call.line1[3] = call.line2[3]

\* width and height of an axis-aligned region of the last box call
RegionWidth == Abs(call.line1[3] - call.line1[1])

RegionHeight == Abs(call.line2[2] - call.line1[2])

\* C1: for every axis-aligned region, of no width or height too,
\* generate_train_box returns with w_count = floor(width/4000)+2 >= 2 and
\* h_count = floor(height/4000)+1 >= 1 and a list of exactly 4 * w_count * 2
\* keyframes.
C1_TrainBoxCounts ==
    (call.fn = "train_box" /\ AxisAligned) =>
        /\ ~call.ret.raised
        /\ call.ret.w_instance = (RegionWidth \div 4000) + 2
        /\ call.ret.w_instance >= 2
        /\ call.ret.h_instance = (RegionHeight \div 4000) + 1
        /\ call.ret.h_instance >= 1
        /\ Len(call.ret.camera_trans) = 4 * call.ret.w_instance * 2

\* a region of no width and no height has been swept: 2 lanes, 16 keyframes
C1_Witness ==
    /\ Returned("train_box")
    /\ RegionWidth = 0
    /\ RegionHeight = 0
    /\ call.ret.w_instance = 2
    /\ Len(call.ret.camera_trans) = 16

\* C2: generate_train_box started at cursor c returns the cursor
\* c + 4 * w_count * (h_count + 1); the region of main() at altitude 15000
\* and cursor 0 gives w_count 24, h_count 10, 192 keyframes, pitch -45 on
\* every keyframe and the cursor 1056.
C2_TrainBoxCursor ==
    Returned("train_box") =>
        /\ call.ret.current_frame =
              call.frame + 4 * call.ret.w_instance * (call.ret.h_instance + 1)
        /\ ( /\ call.line1 = <<-100000, 0, -12000, 0>>
             /\ call.line2 = <<-100000, 38000, -12000, 38000>>
             /\ call.z = 15000
             /\ call.frame = 0 )
           => /\ call.ret.w_instance = 24
              /\ call.ret.h_instance = 10
              /\ Len(call.ret.camera_trans) = 192
              /\ \A k \in 1..Len(call.ret.camera_trans) :
                    call.ret.camera_trans[k].rotation[2] = -45
              /\ call.ret.current_frame = 1056

\* the call of main() has returned
C2_Witness ==
    /\ Returned("train_box")
    /\ call.line1 = <<-100000, 0, -12000, 0>>
    /\ call.line2 = <<-100000, 38000, -12000, 38000>>
    /\ call.z = 15000
    /\ call.frame = 0
    /\ current_frame = 1056

\* the squared length of the segment of the last line call
SegmentSquare ==
    (call.point2[1] - call.point1[1]) * (call.point2[1] - call.point1[1])
    + (call.point2[2] - call.point1[2]) * (call.point2[2] - call.point1[2])

\* n = floor(distance / interval), stated without a square root
IsFloorOfDistance(n, interval) ==
    /\ n >= 0
    /\ (n * interval) * (n * interval) <= SegmentSquare
    /\ SegmentSquare < ((n + 1) * interval) * ((n + 1) * interval)

\* C3: generate_train_line emits exactly 10 keyframes and returns the cursor
\* c + 5 * (instance + 1), with instance = floor(distance/500)+1 when sparse
\* and floor(distance/100)+1 when dense; [0,0] to [1000,0], yaw 0, sparse,
\* cursor 0 gives instance 3 and the cursor 20.
C3_TrainLine ==
    call.fn = "train_line" =>
        /\ ~call.ret.raised
        /\ Len(call.ret.camera_trans) = 10
        /\ IsFloorOfDistance(call.ret.instance - 1, IF call.dense THEN 100 ELSE 500)
        /\ call.ret.current_frame = call.frame + 5 * (call.ret.instance + 1)
        /\ ( /\ call.point1 = <<0, 0>>
             /\ call.point2 = <<1000, 0>>
             /\ call.yaw = 0
             /\ ~call.dense
             /\ call.frame = 0 )
           => /\ call.ret.instance = 3
              /\ call.ret.current_frame = 20

\* the sparse sweep of [0,0] to [1000,0] from cursor 0 has returned
C3_Witness ==
    /\ Returned("train_line")
    /\ call.point1 = <<0, 0>>
    /\ call.point2 = <<1000, 0>>
    /\ call.yaw = 0
    /\ ~call.dense
    /\ call.frame = 0
    /\ current_frame = 20

\* C4: every generator call that returns hands back a cursor strictly greater
\* than the one passed in, and no two of its keyframes carry the same frame.
C4_CursorAdvances ==
    (call.fn \in {"train_box", "test_box", "train_line", "test_line"}
     /\ ~call.ret.raised) =>
        /\ call.ret.current_frame > call.frame
        /\ Cardinality({call.ret.camera_trans[k].frame :
                            k \in 1..Len(call.ret.camera_trans)})
              = Len(call.ret.camera_trans)

\* a line of length zero has been swept: the two keyframes of a pair are one
\* frame apart
C4_Witness ==
    /\ Returned("train_line")
    /\ call.point1 = call.point2
    /\ call.ret.instance = 1
    /\ call.ret.camera_trans[2].frame = call.ret.camera_trans[1].frame + 1

\* C5: started with a non-negative whole cursor, every frame of the returned
\* list is a non-negative whole number and the frames are non-decreasing in
\* list order.
C5_FramesOrdered ==
    (call.fn \in {"train_box", "test_box", "train_line", "test_line"}
     /\ ~call.ret.raised /\ call.frame \in Nat) =>
        /\ \A k \in 1..Len(call.ret.camera_trans) :
              call.ret.camera_trans[k].frame \in Nat
        /\ NonDecreasing(Frames(call.ret.camera_trans))

\* a test line call started at a cursor above 0 has returned its ten keyframes
C5_Witness ==
    /\ Returned("test_line")
    /\ call.frame > 0
    /\ Len(call.ret.camera_trans) = 10

\* what holds of a session in every state: the frames of the accumulated
\* list increase strictly, the cursor is one past the last of them, and the
\* declared length is the final cursor
SessionOrdered ==
    /\ StrictlyIncreasing(Frames(camera_trans))
    /\ \A k \in 1..Len(camera_trans) : camera_trans[k].frame < current_frame
    /\ Len(camera_trans) > 0 =>
          camera_trans[Len(camera_trans)].frame = current_frame - 1
    /\ pc = "done" => seq_length = current_frame

\* C6: in a session that threads the cursor through its calls and
\* concatenates their lists, the cursor never decreases, the frames of the
\* concatenated list increase strictly within and across calls, and the
\* final cursor, used as the sequence length, is greater than every frame,
\* the last frame being the final cursor minus 1.
C6_SessionThreading ==
    /\ []SessionOrdered
    /\ [][current_frame' >= current_frame]_vars

\* a session of two calls has declared its length
C6_Witness ==
    /\ pc = "done"
    /\ ncalls = 2
    /\ call.frame > 0
    /\ Len(camera_trans) > Len(call.ret.camera_trans)
    /\ seq_length = camera_trans[Len(camera_trans)].frame + 1

\* C7: on edges that break one of the four assertions generate_train_box and
\* generate_test_box raise before any count, lattice or keyframe exists: no
\* list and no cursor come back and the caller's cursor is not advanced.
C7_PreconditionFatal ==
    (call.fn \in {"train_box", "test_box"} /\ ~AxisAligned) =>
        /\ call.ret.raised
        /\ call.ret.camera_trans = <<>>
        /\ call.ret.w_instance = -1
        /\ call.ret.h_instance = -1
        /\ call.ret.draws = <<>>
        /\ rng = call.ret.rng
        /\ current_frame = call.frame
        /\ pc = "aborted"
        /\ seq_length = -1

\* a test box call on edges with x12 # x22 has raised after an earlier call
\* had advanced the cursor
C7_Witness ==
    /\ call.fn = "test_box"
    /\ call.line1[3] # call.line2[3]
    /\ call.ret.raised
    /\ call.frame > 0

\* C8: after any generator call the caller's argument objects hold the
\* values they held before the call.
C8_ArgumentsUntouched ==
    /\ call.fn \in {"train_box", "test_box"} =>
          arg_line1 = call.line1 /\ arg_line2 = call.line2
    /\ call.fn \in {"train_line", "test_line"} =>
          arg_point1 = call.point1 /\ arg_point2 = call.point2

\* C9: two generate_train_box calls with the same line1, line2, z and
\* starting cursor return the same keyframe list and the same cursor,
\* whatever was drawn from the global generator between them.
C9_TrainBoxRepeatable ==
    ( /\ call.fn = "train_box"
      /\ prev_box.fn = "train_box"
      /\ call.line1 = prev_box.line1
      /\ call.line2 = prev_box.line2
      /\ call.z = prev_box.z
      /\ call.frame = prev_box.frame ) =>
        /\ call.ret.raised = prev_box.ret.raised
        /\ call.ret.camera_trans = prev_box.ret.camera_trans
        /\ call.ret.current_frame = prev_box.ret.current_frame

\* the same train box call has returned twice with draws from the global
\* generator in between
C9_Witness ==
    /\ Returned("train_box")
    /\ prev_box.fn = "train_box"
    /\ ~prev_box.ret.raised
    /\ call.line1 = prev_box.line1
    /\ call.line2 = prev_box.line2
    /\ call.z = prev_box.z
    /\ call.frame = prev_box.frame
    /\ call.ret.rng # prev_box.ret.rng
    /\ Len(call.ret.camera_trans) = 32

\* C10: every keyframe of generate_test_box has a whole pitch with
\* -60 <= pitch < -44 and a whole yaw with 0 <= yaw <= 360; the base yaw
\* generate_test_line draws is a whole number in [0, 90].
C10_DrawRanges ==
    /\ Returned("test_box") =>
          \A k \in 1..Len(call.ret.camera_trans) :
              /\ call.ret.camera_trans[k].rotation[2] \in Int
              /\ -60 <= call.ret.camera_trans[k].rotation[2]
              /\ call.ret.camera_trans[k].rotation[2] < -44
              /\ call.ret.camera_trans[k].rotation[3] \in 0..360
    /\ Returned("test_line") =>
          /\ call.ret.camera_trans[1].rotation[3] \in 0..90
          /\ call.ret.draws = <<call.ret.camera_trans[1].rotation[3]>>

\* a test box call has drawn the highest pitch and the highest yaw
C10_Witness ==
    /\ Returned("test_box")
    /\ \E k \in 1..Len(call.ret.camera_trans) :
          /\ call.ret.camera_trans[k].rotation[2] = -45
          /\ call.ret.camera_trans[k].rotation[3] = 360

RECURSIVE RunAlone(_, _)
\* the cursor and the list of a session that has run the first n calls of
\* its script with nothing else running
RunAlone(script, n) ==
    IF n = 0 THEN [current_frame |-> 0, camera_trans |-> <<>>]
    ELSE LET before == RunAlone(script, n - 1)
             ret == CallTrain(script[n], before.current_frame)
         IN  [current_frame |-> ret.current_frame,
              camera_trans |-> before.camera_trans \o ret.camera_trans]

\* C11: however the steps of two independent sessions of train generator
\* calls are interleaved, each session holds, after each of its calls and at
\* its end, the keyframe list and the cursor it has when it runs alone.
C11_SessionsIndependent ==
    \A i \in 1..2 :
        LET alone == RunAlone(sessions[i].script, sessions[i].pos)
        IN  /\ sessions[i].camera_trans = alone.camera_trans
            /\ sessions[i].current_frame = alone.current_frame

\* both sessions have ended, each having been interrupted by a call of the
\* other between two calls of its own
C11_Witness ==
    /\ pc = "sessions"
    /\ \A i \in 1..2 :
          /\ sessions[i].pos = Len(sessions[i].script)
          /\ sessions[i].crossed
          /\ Len(sessions[i].camera_trans) > 0
    /\ sessions[1].script # sessions[2].script

\* C12: lengths of zero are no errors: the box generators return on a region
\* of no width and no height with w_count 2 and h_count 1, generate_train_line
\* returns on two equal endpoints with instance 1, and every call that
\* returns has emitted at least one lane or pair of keyframes.
C12_DegenerateInput ==
    /\ ( /\ call.fn \in {"train_box", "test_box"}
         /\ AxisAligned
         /\ RegionWidth = 0
         /\ RegionHeight = 0 )
       => /\ ~call.ret.raised
          /\ call.ret.w_instance = 2
          /\ call.ret.h_instance = 1
    /\ (call.fn = "train_line" /\ call.point1 = call.point2)
       => /\ ~call.ret.raised
          /\ call.ret.instance = 1
    /\ (call.fn # "none" /\ ~call.ret.raised)
       => Len(call.ret.camera_trans) >= 2

\* generate_test_box has returned on a region of no width and no height
C12_Witness ==
    /\ Returned("test_box")
    /\ call.line1 = <<0, 0, 0, 0>>
    /\ call.line2 = <<0, 0, 0, 0>>
    /\ Len(call.ret.camera_trans) = 4

\* the rational q is the k-th of n evenly spaced values from a to b
IsSample(q, a, b, k, n) ==
    q[1] * (n - 1) = (a * (n - 1) + (k - 1) * (b - a)) * q[2]

\* keyframe kf is at lane k's point on the edge line, at altitude z
OnEdge(kf, line, k, n, z) ==
    /\ IsSample(kf.location[1], line[1], line[3], k, n)
    /\ IsSample(kf.location[2], line[2], line[4], k, n)
    /\ kf.location[3] = z

\* C13: generate_train_box emits four consecutive passes with yaw 0, 90,
\* 180, 270; in each pass the lanes come in index order, the keyframe at
\* the lane's start point on line1 first, the keyframe at its end point on
\* line2 exactly h_count frames later with the same rotation, and the next
\* keyframe exactly 1 frame after that.
C13_TrainBoxOrder ==
    Returned("train_box") =>
        LET w == call.ret.w_instance
            h == call.ret.h_instance
            kfs == call.ret.camera_trans
        IN  /\ Len(kfs) = 8 * w
            /\ kfs[1].frame = call.frame
            /\ \A p \in 0..3 : \A k \in 1..w :
                  LET first == p * 2 * w + 2 * (k - 1) + 1
                  IN  /\ kfs[first].rotation[3] = 90 * p
                      /\ OnEdge(kfs[first], call.line1, k, w, call.z)
                      /\ OnEdge(kfs[first + 1], call.line2, k, w, call.z)
                      /\ kfs[first + 1].rotation = kfs[first].rotation
                      /\ kfs[first + 1].frame = kfs[first].frame + h
                      /\ first + 2 <= Len(kfs) =>
                            kfs[first + 2].frame = kfs[first + 1].frame + 1

\* the region of main() has been swept: the second pass starts with the
\* 49th keyframe, at the first lane again
C13_Witness ==
    /\ Returned("train_box")
    /\ call.ret.w_instance = 24
    /\ call.ret.camera_trans[48].rotation[3] = 0
    /\ call.ret.camera_trans[49].rotation[3] = 90
    /\ call.ret.camera_trans[49].location = call.ret.camera_trans[1].location
    /\ call.ret.camera_trans[2].location # call.ret.camera_trans[1].location

\* C14: the pitch of generate_train_box is -60 when z > 25000 and -45
\* otherwise, z = 25000 included; every keyframe of the call carries it,
\* has roll 0 and has the altitude argument as its z.
C14_TrainBoxPitch ==
    Returned("train_box") =>
        \A k \in 1..Len(call.ret.camera_trans) :
            /\ call.ret.camera_trans[k].rotation[2] =
                  (IF call.z > 25000 THEN -60 ELSE -45)
            /\ call.ret.camera_trans[k].rotation[1] = 0
            /\ call.ret.camera_trans[k].location[3] = call.z

\* a sweep at altitude 25000 has returned with pitch -45
C14_Witness ==
    /\ Returned("train_box")
    /\ call.z = 25000
    /\ call.ret.camera_trans[1].rotation[2] = -45

\* the rotation of the j-th pair of a line sweep with base yaw y
PairRotation(j, y) == IF j = 5 THEN <<0, 90, y>> ELSE <<0, 0, y + 90 * (j - 1)>>

\* the ten keyframes kfs are five pairs from a to b at altitude z, base yaw
\* y, starting at frame c, the two keyframes of a pair n frames apart and
\* the next pair 1 frame later
IsLineSweep(kfs, a, b, z, y, c, n) ==
    /\ Len(kfs) = 10
    /\ kfs[1].frame = c
    /\ \A j \in 1..5 :
          /\ kfs[2 * j - 1].rotation = PairRotation(j, y)
          /\ kfs[2 * j].rotation = PairRotation(j, y)
          /\ kfs[2 * j - 1].location = << <<a[1], 1>>, <<a[2], 1>>, z >>
          /\ kfs[2 * j].location = << <<b[1], 1>>, <<b[2], 1>>, z >>
          /\ kfs[2 * j].frame = kfs[2 * j - 1].frame + n
          /\ j < 5 => kfs[2 * j + 1].frame = kfs[2 * j].frame + 1

\* C15: generate_train_line emits five pairs with the rotations (0, 0, yaw),
\* (0, 0, yaw+90), (0, 0, yaw+180), (0, 0, yaw+270), (0, 90, yaw) in this
\* order; in each pair the first keyframe is at point1, the second at point2
\* with the same rotation and z, instance frames later, the next pair starts
\* 1 frame later, and no keyframe has pitch -90.
C15_TrainLineOrder ==
    call.fn = "train_line" =>
        /\ ~call.ret.raised
        /\ IsLineSweep(call.ret.camera_trans, call.point1, call.point2, call.z,
                       call.yaw, call.frame, call.ret.instance)
        /\ \A k \in 1..Len(call.ret.camera_trans) :
              call.ret.camera_trans[k].rotation[2] # -90

\* a dense sweep with base yaw 30 has returned: its fourth pair looks at 300,
\* its fifth looks up
C15_Witness ==
    /\ Returned("train_line")
    /\ call.yaw = 30
    /\ call.dense
    /\ call.point1 # call.point2
    /\ call.ret.camera_trans[7].rotation = <<0, 0, 300>>
    /\ call.ret.camera_trans[10].rotation = <<0, 90, 30>>

\* C16: generate_test_box makes one pass over the lanes with
\* w_count = floor(width/4501)+2 and h_count = floor(height/4501)+1: it emits
\* exactly 2 * w_count keyframes, draws one pitch and one yaw per lane, puts
\* that pair on both keyframes of the lane, and returns c + w_count * (h_count + 1).
C16_TestBoxPass ==
    Returned("test_box") =>
        LET w == call.ret.w_instance
            h == call.ret.h_instance
            kfs == call.ret.camera_trans
            draws == call.ret.draws
        IN  /\ w = (RegionWidth \div 4501) + 2
            /\ h = (RegionHeight \div 4501) + 1
            /\ Len(kfs) = 2 * w
            /\ Len(draws) = 2 * w
            /\ \A k \in 1..w :
                  /\ kfs[2 * k - 1].rotation = <<0, draws[2 * k - 1], draws[2 * k]>>
                  /\ kfs[2 * k].rotation = <<0, draws[2 * k - 1], draws[2 * k]>>
                  /\ OnEdge(kfs[2 * k - 1], call.line1, k, w, call.z)
                  /\ OnEdge(kfs[2 * k], call.line2, k, w, call.z)
                  /\ kfs[2 * k].frame = kfs[2 * k - 1].frame + h
            /\ call.ret.current_frame = call.frame + w * (h + 1)

\* a region 8000 wide and 4500 high has been swept in 3 lanes of 1 frame,
\* the first two lanes with different draws
C16_Witness ==
    /\ Returned("test_box")
    /\ RegionWidth = 8000
    /\ call.ret.w_instance = 3
    /\ call.ret.h_instance = 1
    /\ call.ret.camera_trans[1].rotation = call.ret.camera_trans[2].rotation
    /\ call.ret.camera_trans[3].rotation # call.ret.camera_trans[1].rotation

\* (cos, sin) of the yaws a test line is called with
UnitVector(yaw) == CASE yaw = 0 -> <<1, 0>>
                     [] yaw = 90 -> <<0, 1>>

\* point1 moved by +570 and point2 by -570 along the caller's yaw
Inward1 == <<call.point1[1] + 570 * UnitVector(call.yaw)[1],
             call.point1[2] + 570 * UnitVector(call.yaw)[2]>>

Inward2 == <<call.point2[1] - 570 * UnitVector(call.yaw)[1],
             call.point2[2] - 570 * UnitVector(call.yaw)[2]>>

InwardSquare ==
    (Inward2[1] - Inward1[1]) * (Inward2[1] - Inward1[1])
    + (Inward2[2] - Inward1[2]) * (Inward2[2] - Inward1[2])

\* C17: generate_test_line moves point1 by +570*(cos, sin) and point2 by
\* -570*(cos, sin) of the caller's yaw, then draws one yaw, takes
\* instance = floor(distance of the moved points / 4830) + 1, emits the five
\* pairs of the train variant at the moved points with the drawn yaw on all
\* ten keyframes, and returns c + 5 * (instance + 1).
C17_TestLine ==
    call.fn = "test_line" =>
        LET n == call.ret.instance - 1
        IN  /\ ~call.ret.raised
            /\ Len(call.ret.draws) = 1
            /\ call.ret.draws[1] \in 0..89
            /\ IsLineSweep(call.ret.camera_trans, Inward1, Inward2, call.z,
                           call.ret.draws[1], call.frame, call.ret.instance)
            /\ n >= 0
            /\ (n * 4830) * (n * 4830) <= InwardSquare
            /\ InwardSquare < ((n + 1) * 4830) * ((n + 1) * 4830)
            /\ call.ret.current_frame = call.frame + 5 * (call.ret.instance + 1)

\* a test line call with yaw 0 has drawn another yaw and swept the moved
\* segment with instance 2
C17_Witness ==
    /\ Returned("test_line")
    /\ call.yaw = 0
    /\ call.ret.draws[1] # call.yaw
    /\ call.ret.instance = 2
    /\ call.ret.camera_trans[1].location[1] = <<570, 1>>

=============================================================================
